---- MODULE Spec2Model ----
(***************************************************************************)
(* A model of the emulator core of emusneshdrv0.py: Memory (RAM, cartridge *)
(* ROM, the address decoder), CPU65816 (the stepping instruction unit) and *)
(* EmuSNES (the session that loads, resets and runs frames).               *)
(*                                                                         *)
(* The specifications share the variables:                                 *)
(*   SpecMem  a Memory object driven through load_rom / read8 / write8;    *)
(*   SpecCpu  a CPU65816 on its Memory, driven through Memory.load_rom and *)
(*            step;                                                        *)
(*   Spec     an EmuSNES session driven through load_rom / reset /         *)
(*            run_frame / set_input;                                       *)
(*   SpecSess a session whose host also writes RAM and saves and restores  *)
(*            states;                                                      *)
(*   SpecLong a session that runs frames for the time the program counter *)
(*            takes to leave 16 bits;                                      *)
(*   SpecJoy  the input latch written by the key handlers and by           *)
(*            set_input, and sampled;                                      *)
(*   SpecGui  ZSNESGUI: the GUI thread (Load ROM, Reset, Exit) and the     *)
(*            emulation thread it starts, interleaved;                     *)
(*   SpecGuiFair  SpecGui with the emulation thread scheduled fairly;      *)
(*   SpecTwin two sessions that receive the same calls and different       *)
(*            buttons;                                                     *)
(*   SpecLaunch  EmuAIPro of emusnesv1.py without a backend: the handlers  *)
(*            that start, stop and reset the external emulator process.    *)
(***************************************************************************)
EXTENDS Integers, Sequences, FiniteSets

(***************************************************************************)
(* Program constants.                                                      *)
(***************************************************************************)
RAM_SIZE == 131072
RAM_LIMIT == 8192
ROM_BASE == 32768
ROM_TOP == 65535
BYTE_MASK == 255
OP_NOP == 234
OP_LDA == 169
OP_BRK == 0
PC_INIT == 32768
SP_INIT == 511
P_INIT == 52
STEP_BUDGET == 100
STEP_COST == 2
SCREEN_WIDTH == 256
SCREEN_HEIGHT == 224

(***************************************************************************)
(* Bounds of the model.                                                    *)
(***************************************************************************)
\* Multiples of the RAM size added to or taken from a sampled address.
MaxK == 1
\* Longest ROM image enumerated byte by byte.
MaxRomLen == 1
\* Length of the ROM image made of NOPs only (longer than one frame's budget).
LongRomLen == 120
\* Successful loads of a ROM image into a CPU's memory or into a session.
MaxLoads == 2
\* Calls of cpu.step() made directly by the host.
MaxSteps == 3
\* Calls of run_frame on a loaded session.
MaxFrames == 3
MaxThreads == 2
MaxLongFrames == 32770
MaxProcs == 4
MaxTimers == 2

(***************************************************************************)
(* Inputs.                                                                 *)
(***************************************************************************)
\* Opcode and operand bytes a ROM image is made of: BRK, NOP, LDA #imm, the
\* operand 0x42 (also an unmapped opcode) and the unmapped opcode 0x01.
RomBytes == {OP_BRK, OP_NOP, OP_LDA, 66, 1}

RECURSIVE SeqsOf(_, _)
SeqsOf(S, n) ==
    IF n = 0 THEN {<<>>}
    ELSE LET shorter == SeqsOf(S, n - 1)
         IN  shorter \cup {Append(s, b) : s \in {t \in shorter : Len(t) = n - 1}, b \in S}

\* The program of the concrete scenario: LDA #0x42 ; NOP ; BRK.
ScenarioRom == <<OP_LDA, 66, OP_NOP, OP_BRK>>

\* A ROM of NOPs, longer than the step budget of one frame.
NopRom == [i \in 1..LongRomLen |-> OP_NOP]

\* The images a CPU's memory is loaded with.
CpuImages == SeqsOf(RomBytes, MaxRomLen) \cup {ScenarioRom, NopRom}

\* The images a session is loaded with: the unmapped opcode 0x01 is left out.
RomImages == SeqsOf(RomBytes \ {1}, MaxRomLen) \cup {ScenarioRom, NopRom}

\* The images the GUI's Load ROM is given.
GuiImages == {ScenarioRom, <<OP_NOP>>}

\* The masks of the first keys of the keymap: z, x, a, s.
KeyBits == {1, 2, 4, 8}

\* The images the session with save states is loaded with.
SessImages == {ScenarioRom, NopRom}

\* What the host of that session writes to RAM, and where.
PokeAddrs == {RAM_LIMIT - 1}
PokeVals == {66}

\* The images a Memory object is loaded with when driven directly.
MemImages == SeqsOf({66}, MaxRomLen) \cup {ScenarioRom}

\* Addresses around every boundary of the decoder ...
AddrSamples ==
    {0, RAM_LIMIT - 1, RAM_LIMIT, ROM_BASE - 1, ROM_BASE, ROM_BASE + 1,
     ROM_BASE + MaxRomLen, ROM_BASE + Len(ScenarioRom) - 1,
     ROM_BASE + Len(ScenarioRom), ROM_TOP, ROM_TOP + 1}

\* ... and the same addresses moved by multiples of the RAM size.
Shifted(S) == {x + RAM_SIZE * k : x \in S, k \in (0 - MaxK)..MaxK}

ReadAddrs == Shifted(AddrSamples)

WriteAddrs == Shifted({0, RAM_LIMIT - 1, RAM_LIMIT, ROM_BASE})

\* Values handed to write8: negative, a byte, and a value above a byte.
WriteVals == {0 - 1, 66, 256}

\* Button masks handed to set_input.
JoyVals == {0, 1}

\* The pixels <<x, y>> of the frame buffer the model keeps: the corners and one
\* inner pixel.
Pixels ==
    {<<0, 0>>, <<SCREEN_WIDTH - 1, 0>>, <<0, SCREEN_HEIGHT - 1>>,
     <<SCREEN_WIDTH - 1, SCREEN_HEIGHT - 1>>, <<5, 3>>}

(***************************************************************************)
(* Python's integer operators.                                             *)
(***************************************************************************)
\* x & m for m >= 0, on two's complement integers of unbounded width.
RECURSIVE BitAnd(_, _)
BitAnd(x, m) ==
    IF m = 0 THEN 0
    ELSE (x % 2) * (m % 2) + 2 * BitAnd((x - (x % 2)) \div 2, m \div 2)

\* x ^ y for x, y >= 0.
RECURSIVE BitXor(_, _)
BitXor(x, y) ==
    IF x = 0 THEN y
    ELSE IF y = 0 THEN x
    ELSE ((x + y) % 2) + 2 * BitXor(x \div 2, y \div 2)

(***************************************************************************)
(* State.                                                                  *)
(***************************************************************************)
VARIABLES
    ram,        \* Memory.ram: the cells that are not 0, by index (a bytearray of RAM_SIZE zeros at creation)
    rom,        \* Memory.rom
    rom_size,   \* Memory.rom_size
    pc,         \* CPU65816.pc
    a,          \* CPU65816.a
    sp,         \* CPU65816.sp
    p,          \* CPU65816.p
    cycles,     \* CPU65816.cycles
    loaded,     \* EmuSNES.loaded
    framecount, \* EmuSNES.framecount
    joy,        \* Joypad.state
    framebuffer,\* PPU.framebuffer, at the sampled pixels
    last,       \* the last call made and what it returned
    nsteps,     \* calls of cpu.step() made by the host since creation
    stepsAtLoad,\* nsteps when the host loaded the ROM now in the CPU's memory
    nframes,    \* calls of run_frame on a loaded session since creation
    nloads,     \* successful loads since creation, counted up to MaxLoads
    slots,      \* the save-state slots of the session
    savedCount, \* per slot, the frame count at the time of its last save
    firstFrame, \* the first frame produced after the initial load, once there is one
    running,    \* ZSNESGUI.running
    gui,        \* the GUI thread: the handler it is in and where
    thr,        \* the emulation threads: where each is in emu_loop, and its locals
    twin,       \* a second EmuSNES session of the same host, once it is created
    launcher    \* EmuAIPro: running, emu_process and the processes it started

vars == <<ram, rom, rom_size, pc, a, sp, p, cycles, loaded, framecount, joy,
          framebuffer, last, nsteps, stepsAtLoad, nframes, nloads,
          slots, savedCount, firstFrame, running, gui, thr, twin, launcher>>

memVars == <<ram, rom, rom_size>>
cpuVars == <<pc, a, sp, p, cycles>>
emuVars == <<loaded, framecount, joy, framebuffer>>
sessVars == <<slots, savedCount>>
guiVars == <<running, gui, thr>>

\* The record kept of a call: its name, its arguments (addr, val), what it
\* returned (ret), whether it raised, and for run_frame the steps it executed
\* and the halts it trapped. follows: a read8 that directly follows a write8
\* of val to the same address. For run_frame, val is the frame count it
\* started with and after is the reset or load_state it directly follows.
Call(op) ==
    [op |-> op, addr |-> 0, val |-> 0, ret |-> 0, raised |-> FALSE,
     follows |-> FALSE, steps |-> 0, halts |-> 0, after |-> ""]

(***************************************************************************)
(* Memory.                                                                 *)
(***************************************************************************)
RamAt(ram_, i) == IF i \in DOMAIN ram_ THEN ram_[i] ELSE 0

RamPut(ram_, i, b) ==
    IF b = 0 THEN [j \in DOMAIN ram_ \ {i} |-> ram_[j]]
    ELSE [j \in DOMAIN ram_ \cup {i} |-> IF j = i THEN b ELSE ram_[j]]

\* read8 without the reduction of a RAM address modulo the RAM size.
Read8_NoWrap(ram_, rom_, size_, addr) ==
    IF addr < RAM_LIMIT THEN [raised |-> FALSE, val |-> RamAt(ram_, addr)]
    ELSE IF ROM_BASE <= addr /\ addr <= ROM_TOP /\ addr - ROM_BASE < Len(rom_)
         THEN [raised |-> FALSE, val |-> rom_[addr - ROM_BASE + 1]]
    ELSE [raised |-> FALSE, val |-> 0]

\* read8 with the bound on the ROM offset off by one (<= for <).
Read8_OffByOne(ram_, rom_, size_, addr) ==
    IF addr < RAM_LIMIT THEN
        [raised |-> FALSE, val |-> RamAt(ram_, addr % RAM_SIZE)]
    ELSE IF ROM_BASE <= addr /\ addr <= ROM_TOP THEN
        LET off == addr - ROM_BASE
        IN  IF off <= size_ THEN
                IF off < Len(rom_) THEN [raised |-> FALSE, val |-> rom_[off + 1]]
                ELSE [raised |-> TRUE, val |-> 0]
            ELSE [raised |-> FALSE, val |-> 0]
    ELSE [raised |-> FALSE, val |-> 0]

\* read8 that mirrors the ROM image through the whole ROM window.
Read8_Mirror(ram_, rom_, size_, addr) ==
    IF addr < RAM_LIMIT THEN
        [raised |-> FALSE, val |-> RamAt(ram_, addr % RAM_SIZE)]
    ELSE IF ROM_BASE <= addr /\ addr <= ROM_TOP /\ Len(rom_) > 0 THEN
        [raised |-> FALSE, val |-> rom_[((addr - ROM_BASE) % Len(rom_)) + 1]]
    ELSE [raised |-> FALSE, val |-> 0]

\* Memory.read8: the byte returned, or raised when rom is indexed past its end.
Read8(ram_, rom_, size_, addr) ==
    IF addr < RAM_LIMIT THEN
        [raised |-> FALSE, val |-> RamAt(ram_, addr % RAM_SIZE)]
    ELSE IF ROM_BASE <= addr /\ addr <= ROM_TOP THEN
        LET off == addr - ROM_BASE
        IN  IF off < size_ THEN
                IF off < Len(rom_) THEN [raised |-> FALSE, val |-> rom_[off + 1]]
                ELSE [raised |-> TRUE, val |-> 0]
            ELSE [raised |-> FALSE, val |-> 0]
    ELSE [raised |-> FALSE, val |-> 0]

\* write8 that stores the value without masking it to a byte.
Write8_NoMask(ram_, addr, val) ==
    IF addr < RAM_LIMIT THEN RamPut(ram_, addr % RAM_SIZE, val)
    ELSE ram_

\* write8 without the test of the RAM range.
Write8_NoGuard(ram_, addr, val) ==
    RamPut(ram_, addr % RAM_SIZE, BitAnd(val, BYTE_MASK))

\* Memory.write8: the RAM after the call.
Write8(ram_, addr, val) ==
    IF addr < RAM_LIMIT THEN RamPut(ram_, addr % RAM_SIZE, BitAnd(val, BYTE_MASK))
    ELSE ram_

\* Memory.load_rom on a readable file holding img: rom and rom_size after it.
MemLoadRom(img) == [rom |-> img, rom_size |-> Len(img)]

\* The slot the launcher's Save State and Load State entries use.
SlotIds == {0}

\* A slot nothing was saved to.
EmptySlot ==
    [used |-> FALSE, pc |-> PC_INIT, a |-> 0, sp |-> SP_INIT, p |-> P_INIT,
     cycles |-> 0, ram |-> <<>>, framecount |-> 0]

\* The emulation threads a run can hold, and a place not taken by a thread.
ThreadIds == 1 .. MaxThreads
NoThread == [at |-> "none", tmp |-> 0]

\* The GUI thread in the Tk main loop with no handler running. at is the
\* handler statement it is about to execute; hit is where the emulation thread
\* was when the latest reset or load took effect; late counts the run_frame
\* calls begun after quit cleared running; joy_state is the button mask the
\* key handlers keep; held is the set of mapped keys that are physically down,
\* by their bits; shown is the image the canvas displays, once one was set.
GuiInit ==
    [at |-> "idle", hit |-> "", late |-> 0, joy_state |-> 0, held |-> {},
     shown |-> [set |-> FALSE, fb |-> [px \in Pixels |-> <<0, 0, 0>>]]]

\* No second session yet.
NoTwin == [on |-> FALSE]

\* EmuAIPro.__init__ without a backend: running is False and emu_process is
\* None (0). The processes Popen returned are numbered from 1; live are those
\* started and neither stopped by stop_emu nor reaped by _pulse, exited those
\* that have ended by themselves, started counts the Popen calls that
\* succeeded and timers the start_emu calls that root.after holds; rom_path
\* is None (0) or the path of the ROM selected (1).
LauncherInit ==
    [running |-> FALSE, emu_process |-> 0, live |-> {}, exited |-> {},
     started |-> 0, timers |-> 0, rom_path |-> 0]

Init ==
    /\ ram = <<>>
    /\ rom = <<>>
    /\ rom_size = 0
    /\ pc = PC_INIT
    /\ a = 0
    /\ sp = SP_INIT
    /\ p = P_INIT
    /\ cycles = 0
    /\ loaded = FALSE
    /\ framecount = 0
    /\ joy = 0
    /\ framebuffer = [px \in Pixels |-> <<0, 0, 0>>]
    /\ last = Call("init")
    /\ nsteps = 0
    /\ stepsAtLoad = 0
    /\ nframes = 0
    /\ nloads = 0
    /\ slots = [s \in SlotIds |-> EmptySlot]
    /\ savedCount = [s \in SlotIds |-> 0]
    /\ firstFrame = [set |-> FALSE, fb |-> [px \in Pixels |-> <<0, 0, 0>>]]
    /\ running = FALSE
    /\ gui = GuiInit
    /\ thr = [t \in ThreadIds |-> NoThread]
    /\ twin = NoTwin
    /\ launcher = LauncherInit

(***************************************************************************)
(* A Memory object driven directly.                                        *)
(***************************************************************************)
DoMemLoad(img) ==
    /\ rom' = MemLoadRom(img).rom
    /\ rom_size' = MemLoadRom(img).rom_size
    /\ last' = [Call("mem_load") EXCEPT !.ret = 1]
    /\ UNCHANGED <<ram, cpuVars, emuVars, nsteps, stepsAtLoad, nframes, nloads>>
    /\ UNCHANGED <<sessVars, firstFrame, twin, launcher, guiVars>>

\* open() or read() raises: nothing is assigned.
DoMemLoadFail ==
    /\ last' = [Call("mem_load") EXCEPT !.raised = TRUE]
    /\ UNCHANGED <<memVars, cpuVars, emuVars, nsteps, stepsAtLoad, nframes, nloads>>
    /\ UNCHANGED <<sessVars, firstFrame, twin, launcher, guiVars>>

DoWrite8(addr, val) ==
    /\ ram' = Write8(ram, addr, val)
    /\ last' = [Call("write8") EXCEPT !.addr = addr, !.val = val]
    /\ UNCHANGED <<rom, rom_size, cpuVars, emuVars, nsteps, stepsAtLoad, nframes, nloads>>
    /\ UNCHANGED <<sessVars, firstFrame, twin, launcher, guiVars>>

DoRead8(addr) ==
    LET r == Read8(ram, rom, rom_size, addr)
        fol == last.op = "write8" /\ last.addr = addr
    IN  /\ last' = [Call("read8") EXCEPT !.addr = addr, !.ret = r.val,
                        !.raised = r.raised, !.follows = fol,
                        !.val = IF fol THEN last.val ELSE 0]
        /\ UNCHANGED <<memVars, cpuVars, emuVars, nsteps, stepsAtLoad, nframes, nloads>>
        /\ UNCHANGED <<sessVars, firstFrame, twin, launcher, guiVars>>

NextMem ==
    \/ \E img \in MemImages : DoMemLoad(img)
    \/ DoMemLoadFail
    \/ \E addr \in WriteAddrs, val \in WriteVals : DoWrite8(addr, val)
    \/ \E addr \in ReadAddrs : DoRead8(addr)

SpecMem == Init /\ [][NextMem]_vars

(***************************************************************************)
(* CPU65816.                                                               *)
(***************************************************************************)
\* The registers of the current state, with what a run of steps adds to them:
\* raised (an exception left step), steps (calls of step made) and halts (BRK
\* opcodes fetched).
Cpu ==
    [pc |-> pc, a |-> a, sp |-> sp, p |-> p, cycles |-> cycles,
     raised |-> FALSE, steps |-> 0, halts |-> 0]

\* step that fetches the operand of LDA where it fetched the opcode (the
\* program counter is not advanced after the fetch).
StepCpu_NoAdvance(c, ram_, rom_, size_) ==
    LET f == Read8(ram_, rom_, size_, c.pc)
        c0 == [c EXCEPT !.steps = @ + 1]
    IN  IF f.raised THEN [c0 EXCEPT !.raised = TRUE]
        ELSE IF f.val = OP_NOP THEN [c0 EXCEPT !.cycles = @ + STEP_COST]
        ELSE IF f.val = OP_LDA THEN
            [c0 EXCEPT !.pc = @ + 1, !.a = f.val, !.cycles = @ + STEP_COST]
        ELSE IF f.val = OP_BRK THEN [c0 EXCEPT !.raised = TRUE, !.halts = @ + 1]
        ELSE [c0 EXCEPT !.cycles = @ + STEP_COST]

\* step that raises on an opcode it does not know.
StepCpu_UnknownRaises(c, ram_, rom_, size_) ==
    LET f == Read8(ram_, rom_, size_, c.pc)
        c0 == [c EXCEPT !.steps = @ + 1]
        c1 == [c0 EXCEPT !.pc = @ + 1]
    IN  IF f.raised THEN [c0 EXCEPT !.raised = TRUE]
        ELSE IF f.val = OP_NOP THEN [c1 EXCEPT !.cycles = @ + STEP_COST]
        ELSE IF f.val = OP_LDA THEN
            LET o == Read8(ram_, rom_, size_, c1.pc)
            IN  IF o.raised THEN [c1 EXCEPT !.raised = TRUE]
                ELSE [c1 EXCEPT !.pc = @ + 1, !.a = o.val, !.cycles = @ + STEP_COST]
        ELSE IF f.val = OP_BRK THEN [c1 EXCEPT !.raised = TRUE, !.halts = @ + 1]
        ELSE [c1 EXCEPT !.raised = TRUE]

\* step whose LDA does not move the program counter past its operand.
StepCpu_LdaKeepsPc(c, ram_, rom_, size_) ==
    LET f == Read8(ram_, rom_, size_, c.pc)
        c0 == [c EXCEPT !.steps = @ + 1]
        c1 == [c0 EXCEPT !.pc = @ + 1]
    IN  IF f.raised THEN [c0 EXCEPT !.raised = TRUE]
        ELSE IF f.val = OP_NOP THEN [c1 EXCEPT !.cycles = @ + STEP_COST]
        ELSE IF f.val = OP_LDA THEN
            LET o == Read8(ram_, rom_, size_, c1.pc)
            IN  IF o.raised THEN [c1 EXCEPT !.raised = TRUE]
                ELSE [c1 EXCEPT !.a = o.val, !.cycles = @ + STEP_COST]
        ELSE IF f.val = OP_BRK THEN [c1 EXCEPT !.raised = TRUE, !.halts = @ + 1]
        ELSE [c1 EXCEPT !.cycles = @ + STEP_COST]

\* step whose BRK raises before the program counter is advanced.
StepCpu_StickyBrk(c, ram_, rom_, size_) ==
    LET f == Read8(ram_, rom_, size_, c.pc)
        c0 == [c EXCEPT !.steps = @ + 1]
        c1 == [c0 EXCEPT !.pc = @ + 1]
    IN  IF f.raised THEN [c0 EXCEPT !.raised = TRUE]
        ELSE IF f.val = OP_NOP THEN [c1 EXCEPT !.cycles = @ + STEP_COST]
        ELSE IF f.val = OP_LDA THEN
            LET o == Read8(ram_, rom_, size_, c1.pc)
            IN  IF o.raised THEN [c1 EXCEPT !.raised = TRUE]
                ELSE [c1 EXCEPT !.pc = @ + 1, !.a = o.val, !.cycles = @ + STEP_COST]
        ELSE IF f.val = OP_BRK THEN [c0 EXCEPT !.raised = TRUE, !.halts = @ + 1]
        ELSE [c1 EXCEPT !.cycles = @ + STEP_COST]

\* CPU65816.step: the registers after the call. An exception leaves the
\* registers as they were when it was raised.
StepCpu(c, ram_, rom_, size_) ==
    LET f == Read8(ram_, rom_, size_, c.pc)
        c0 == [c EXCEPT !.steps = @ + 1]
        c1 == [c0 EXCEPT !.pc = @ + 1]
    IN  IF f.raised THEN [c0 EXCEPT !.raised = TRUE]
        ELSE IF f.val = OP_NOP THEN [c1 EXCEPT !.cycles = @ + STEP_COST]
        ELSE IF f.val = OP_LDA THEN
            LET o == Read8(ram_, rom_, size_, c1.pc)
            IN  IF o.raised THEN [c1 EXCEPT !.raised = TRUE]
                ELSE [c1 EXCEPT !.pc = @ + 1, !.a = o.val, !.cycles = @ + STEP_COST]
        ELSE IF f.val = OP_BRK THEN [c1 EXCEPT !.raised = TRUE, !.halts = @ + 1]
        ELSE [c1 EXCEPT !.cycles = @ + STEP_COST]

(***************************************************************************)
(* PPU and Joypad.                                                         *)
(***************************************************************************)
\* render_frame that draws the same frame whatever the frame index.
RenderFrame_NoIndex(n) ==
    [px \in Pixels |->
        LET c == BitAnd(BitXor(px[1], px[2]), BYTE_MASK)
        IN  <<c, 255 - c, c \div 2>>]

\* render_frame that draws over the frame the buffer holds instead of
\* replacing it.
RenderFrame_Blend(n) ==
    [px \in Pixels |->
        LET c == BitAnd(BitXor(BitXor(BitXor(px[1], px[2]), n), framebuffer[px][1]),
                        BYTE_MASK)
        IN  <<c, 255 - c, c \div 2>>]

\* PPU.render_frame part of the way: the frame buffer fb once the loop over y
\* has drawn the rows of frame n in the set rows. Each intermediate value is
\* bound once, as the element of a singleton set: x ^ y, then ^ frame_count,
\* then & 0xFF, then the pixel.
RenderRows(fb, n, rows) ==
    [px \in Pixels |->
        IF px[2] \in rows
        THEN CHOOSE r \in
                {<<c, 255 - c, c \div 2>> :
                    c \in {BitAnd(w, BYTE_MASK) :
                        w \in {BitXor(v, n) : v \in {BitXor(px[1], px[2])}}}} : TRUE
        ELSE fb[px]]

\* PPU.render_frame: the frame buffer after the call.
RenderFrame(n) ==
    [px \in Pixels |->
        LET c == BitAnd(BitXor(BitXor(px[1], px[2]), n), BYTE_MASK)
        IN  <<c, 255 - c, c \div 2>>]

(***************************************************************************)
(* EmuSNES.                                                                *)
(***************************************************************************)
\* The loop with the try inside it: a step that raises is trapped and the loop
\* goes on to the next step.
RECURSIVE RunSteps_Continue(_, _, _, _, _)
RunSteps_Continue(c, n, ram_, rom_, size_) ==
    IF n = 0 THEN c
    ELSE IF n = 1 THEN StepCpu([c EXCEPT !.raised = FALSE], ram_, rom_, size_)
    ELSE LET first == RunSteps_Continue(c, n \div 2, ram_, rom_, size_)
         IN  IF first.steps = 0 THEN first
             ELSE RunSteps_Continue(first, n - (n \div 2), ram_, rom_, size_)

\* The loop of run_frame inside its try: up to n calls of step, ended by the
\* first one that raises. The n calls are made as the first n \div 2 followed
\* by the rest, which keeps the evaluation shallow; the registers after the
\* first half are bound once, as the element of a singleton set.
RECURSIVE RunSteps(_, _, _, _, _)
RunSteps(c, n, ram_, rom_, size_) ==
    IF n = 0 THEN c
    ELSE IF n = 1 THEN StepCpu(c, ram_, rom_, size_)
    ELSE CHOOSE r \in {IF first.raised THEN first
                       ELSE RunSteps(first, n - (n \div 2), ram_, rom_, size_)
                       : first \in {RunSteps(c, n \div 2, ram_, rom_, size_)}} : TRUE

\* run_frame without the try: an exception of step leaves run_frame.
EmuRunFrame_NoTrap(ld, c, fc, fb, ram_, rom_, size_) ==
    IF ~ld THEN
        [ret |-> 0, raised |-> FALSE, cpu |-> c, framecount |-> fc, framebuffer |-> fb]
    ELSE
        LET r == RunSteps(c, STEP_BUDGET, ram_, rom_, size_)
        IN  IF r.raised THEN
                [ret |-> 0, raised |-> TRUE, cpu |-> r, framecount |-> fc,
                 framebuffer |-> fb]
            ELSE
                [ret |-> 1, raised |-> FALSE, cpu |-> r, framecount |-> fc + 1,
                 framebuffer |-> RenderFrame(fc)]

\* run_frame without the test of loaded.
EmuRunFrame_NoLoadedTest(ld, c, fc, fb, ram_, rom_, size_) ==
    LET r == RunSteps(c, STEP_BUDGET, ram_, rom_, size_)
    IN  [ret |-> 1, raised |-> FALSE, cpu |-> r, framecount |-> fc + 1,
         framebuffer |-> RenderFrame(fc)]

\* run_frame that counts the cycles of each frame from 0.
EmuRunFrame_FreshCycles(ld, c, fc, fb, ram_, rom_, size_) ==
    IF ~ld THEN
        [ret |-> 0, raised |-> FALSE, cpu |-> c, framecount |-> fc, framebuffer |-> fb]
    ELSE
        LET r == RunSteps([c EXCEPT !.cycles = 0], STEP_BUDGET, ram_, rom_, size_)
        IN  [ret |-> 1, raised |-> FALSE, cpu |-> r, framecount |-> fc + 1,
             framebuffer |-> RenderFrame(fc)]

\* run_frame that leaves the frame count as it is.
EmuRunFrame_NoCount(ld, c, fc, fb, ram_, rom_, size_) ==
    IF ~ld THEN
        [ret |-> 0, raised |-> FALSE, cpu |-> c, framecount |-> fc, framebuffer |-> fb]
    ELSE
        LET r == RunSteps(c, STEP_BUDGET, ram_, rom_, size_)
        IN  [ret |-> 1, raised |-> FALSE, cpu |-> r, framecount |-> fc,
             framebuffer |-> RenderFrame(fc)]

\* run_frame whose loop makes one step more than the budget.
EmuRunFrame_OverBudget(ld, c, fc, fb, ram_, rom_, size_) ==
    IF ~ld THEN
        [ret |-> 0, raised |-> FALSE, cpu |-> c, framecount |-> fc, framebuffer |-> fb]
    ELSE
        LET r == RunSteps(c, STEP_BUDGET + 1, ram_, rom_, size_)
        IN  [ret |-> 1, raised |-> FALSE, cpu |-> r, framecount |-> fc + 1,
             framebuffer |-> RenderFrame(fc)]

\* EmuSNES.run_frame: what it returns (ret 1: the frame buffer, 0: None),
\* whether it raises, and the registers, frame count and frame buffer after it.
EmuRunFrame(ld, c, fc, fb, ram_, rom_, size_) ==
    IF ~ld THEN
        [ret |-> 0, raised |-> FALSE, cpu |-> c, framecount |-> fc, framebuffer |-> fb]
    ELSE
        LET r == RunSteps(c, STEP_BUDGET, ram_, rom_, size_)
        IN  [ret |-> 1, raised |-> FALSE, cpu |-> r, framecount |-> fc + 1,
             framebuffer |-> RenderFrame(fc)]

\* load_rom that leaves the session unloaded and without a ROM when the file
\* cannot be read.
EmuLoadRom_Unloads(io, rom_, size_, ld) ==
    IF io.ok THEN
        [rom |-> MemLoadRom(io.data).rom, rom_size |-> MemLoadRom(io.data).rom_size,
         loaded |-> TRUE, ret |-> 1, raised |-> FALSE]
    ELSE
        [rom |-> <<>>, rom_size |-> 0, loaded |-> FALSE, ret |-> 0, raised |-> TRUE]

\* EmuSNES.load_rom on a file whose reading succeeds (io.ok) with io.data, or
\* raises: rom, rom_size and loaded after the call, what it returns and
\* whether it raises. Memory.load_rom raises before it assigns anything, and
\* the exception leaves EmuSNES.load_rom before it assigns loaded.
EmuLoadRom(io, rom_, size_, ld) ==
    IF io.ok THEN
        [rom |-> MemLoadRom(io.data).rom, rom_size |-> MemLoadRom(io.data).rom_size,
         loaded |-> TRUE, ret |-> 1, raised |-> FALSE]
    ELSE
        [rom |-> rom_, rom_size |-> size_, loaded |-> ld, ret |-> 0, raised |-> TRUE]

\* reset that also clears the RAM.
EmuReset_ClearsRam(c, fc, ram_) ==
    [cpu |-> [c EXCEPT !.pc = PC_INIT], framecount |-> 0, ram |-> <<>>]

\* reset that leaves the frame count as it is.
EmuReset_KeepsCount(c, fc, ram_) ==
    [cpu |-> [c EXCEPT !.pc = PC_INIT], framecount |-> fc, ram |-> ram_]

\* EmuSNES.reset: the registers, the frame count and the RAM after the call.
EmuReset(c, fc, ram_) ==
    [cpu |-> [c EXCEPT !.pc = PC_INIT], framecount |-> 0, ram |-> ram_]

\* set_state that merges the new buttons into the ones held.
JoySetState_Merge(state_, bits) == state_ + bits - BitAnd(state_, bits)

\* Joypad.set_state: the latch after the call.
JoySetState(state_, bits) == bits

\* EmuSNES.load_rom on a readable file holding img.
LoadRom(img) ==
    /\ nloads < MaxLoads
    /\ LET r == EmuLoadRom([ok |-> TRUE, data |-> img], rom, rom_size, loaded)
       IN  /\ rom' = r.rom
           /\ rom_size' = r.rom_size
           /\ loaded' = r.loaded
           /\ last' = [Call("load_rom") EXCEPT !.ret = r.ret, !.raised = r.raised]
    /\ nloads' = nloads + 1
    /\ UNCHANGED <<ram, cpuVars, framecount, joy, framebuffer, nsteps,
                   stepsAtLoad, nframes>>
    /\ UNCHANGED <<sessVars, firstFrame, twin, launcher, guiVars>>

\* EmuSNES.load_rom on a file that cannot be opened or read: Memory.load_rom
\* raises before it assigns anything, and so does EmuSNES.load_rom.
LoadRomFail ==
    /\ LET r == EmuLoadRom([ok |-> FALSE, data |-> <<>>], rom, rom_size, loaded)
       IN  /\ rom' = r.rom
           /\ rom_size' = r.rom_size
           /\ loaded' = r.loaded
           /\ last' = [Call("load_rom") EXCEPT !.ret = r.ret, !.raised = r.raised]
    /\ UNCHANGED <<ram, cpuVars, framecount, joy, framebuffer, nsteps,
                   stepsAtLoad, nframes, nloads>>
    /\ UNCHANGED <<sessVars, firstFrame, twin, launcher, guiVars>>

\* EmuSNES.reset
Reset ==
    /\ LET r == EmuReset(Cpu, framecount, ram)
       IN  /\ pc' = r.cpu.pc /\ a' = r.cpu.a /\ sp' = r.cpu.sp /\ p' = r.cpu.p
           /\ cycles' = r.cpu.cycles
           /\ framecount' = r.framecount
           /\ ram' = r.ram
    /\ last' = Call("reset")
    /\ UNCHANGED <<rom, rom_size, loaded, joy, framebuffer,
                   nsteps, stepsAtLoad, nframes, nloads>>
    /\ UNCHANGED <<sessVars, firstFrame, twin, launcher, guiVars>>

\* EmuSNES.set_input
SetInput(bits) ==
    /\ joy' = JoySetState(joy, bits)
    /\ last' = [Call("set_input") EXCEPT !.val = bits]
    /\ UNCHANGED <<memVars, cpuVars, loaded, framecount, framebuffer,
                   nsteps, stepsAtLoad, nframes, nloads>>
    /\ UNCHANGED <<sessVars, firstFrame, twin, launcher, guiVars>>

\* mem.load_rom called by the host of a CPU, on a readable file holding img.
CpuLoadRom(img) ==
    /\ nloads < MaxLoads
    /\ rom' = MemLoadRom(img).rom
    /\ rom_size' = MemLoadRom(img).rom_size
    /\ last' = [Call("mem_load") EXCEPT !.ret = 1]
    /\ stepsAtLoad' = nsteps
    /\ nloads' = nloads + 1
    /\ UNCHANGED <<ram, cpuVars, emuVars, nsteps, nframes>>
    /\ UNCHANGED <<sessVars, firstFrame, twin, launcher, guiVars>>

\* cpu.step() called by the host; addr and val record the address and the
\* opcode it fetched.
Step ==
    /\ nsteps < MaxSteps
    /\ LET r == StepCpu(Cpu, ram, rom, rom_size)
       IN  /\ pc' = r.pc /\ a' = r.a /\ sp' = r.sp /\ p' = r.p /\ cycles' = r.cycles
           /\ last' = [Call("step") EXCEPT !.raised = r.raised, !.steps = r.steps,
                          !.halts = r.halts, !.addr = pc,
                          !.val = Read8(ram, rom, rom_size, pc).val]
           /\ nsteps' = nsteps + r.steps
    /\ UNCHANGED <<memVars, emuVars, stepsAtLoad, nframes, nloads>>
    /\ UNCHANGED <<sessVars, firstFrame, twin, launcher, guiVars>>

\* EmuSNES.run_frame, by a session that runs no more than limit frames.
RunFrameWithin(limit) ==
    /\ nframes < limit
    /\ LET f == EmuRunFrame(loaded, Cpu, framecount, framebuffer, ram, rom, rom_size)
       IN  /\ pc' = f.cpu.pc /\ a' = f.cpu.a /\ sp' = f.cpu.sp /\ p' = f.cpu.p
           /\ cycles' = f.cpu.cycles
           /\ framecount' = f.framecount
           /\ framebuffer' = f.framebuffer
           /\ last' = [Call("run_frame") EXCEPT !.ret = f.ret, !.raised = f.raised,
                          !.steps = f.cpu.steps, !.halts = f.cpu.halts,
                          !.val = framecount,
                          !.after = IF last.op \in {"reset", "load_state"}
                                    THEN last.op ELSE ""]
           /\ firstFrame' = IF f.ret = 1 /\ ~firstFrame.set
                             THEN [set |-> TRUE, fb |-> f.framebuffer]
                             ELSE firstFrame
           /\ nframes' = IF loaded THEN nframes + 1 ELSE nframes
    /\ UNCHANGED <<memVars, loaded, joy, nsteps, stepsAtLoad, nloads>>
    /\ UNCHANGED <<sessVars, guiVars, twin, launcher>>

\* EmuSNES.run_frame
RunFrame == RunFrameWithin(MaxFrames)

NextCpu ==
    \/ \E img \in CpuImages : CpuLoadRom(img)
    \/ Step

SpecCpu == Init /\ [][NextCpu]_vars

Next ==
    \/ \E img \in RomImages : LoadRom(img)
    \/ LoadRomFail
    \/ Reset
    \/ \E bits \in JoyVals : SetInput(bits)
    \/ RunFrame

Spec == Init /\ [][Next]_vars

(***************************************************************************)
(* A session left running for many frames on an empty image: every frame   *)
(* fetches one BRK.                                                        *)
(***************************************************************************)
NextLong ==
    \/ LoadRom(<<>>)
    \/ RunFrameWithin(MaxLongFrames)

SpecLong == Init /\ [][NextLong]_vars

(***************************************************************************)
(* A session whose host also writes RAM and saves and restores states.     *)
(***************************************************************************)
\* save_state: the snapshot of the processor state, the RAM contents and the
\* frame count that the slot holds after the call.
SaveSlot(c, ram_, fc) ==
    [used |-> TRUE, pc |-> c.pc, a |-> c.a, sp |-> c.sp, p |-> c.p,
     cycles |-> c.cycles, ram |-> ram_, framecount |-> fc]

\* load_state that restores the processor state and the RAM, not the frame count.
LoadSlot_KeepsCount(snap, c, ram_, fc) ==
    IF snap.used THEN
        [ok |-> TRUE,
         cpu |-> [c EXCEPT !.pc = snap.pc, !.a = snap.a, !.sp = snap.sp,
                           !.p = snap.p, !.cycles = snap.cycles],
         ram |-> snap.ram, framecount |-> fc]
    ELSE [ok |-> FALSE, cpu |-> c, ram |-> ram_, framecount |-> fc]

\* load_state: whether it succeeds, and the processor state, the RAM and the
\* frame count after the call. A slot never saved is a failure that changes
\* nothing.
LoadSlot(snap, c, ram_, fc) ==
    IF snap.used THEN
        [ok |-> TRUE,
         cpu |-> [c EXCEPT !.pc = snap.pc, !.a = snap.a, !.sp = snap.sp,
                           !.p = snap.p, !.cycles = snap.cycles],
         ram |-> snap.ram, framecount |-> snap.framecount]
    ELSE [ok |-> FALSE, cpu |-> c, ram |-> ram_, framecount |-> fc]

\* save_state(s)
SaveState(s) ==
    /\ slots' = [slots EXCEPT ![s] = SaveSlot(Cpu, ram, framecount)]
    /\ savedCount' = [savedCount EXCEPT ![s] = framecount]
    /\ last' = [Call("save_state") EXCEPT !.addr = s, !.ret = 1]
    /\ UNCHANGED <<memVars, cpuVars, emuVars, nsteps, stepsAtLoad, nframes, nloads>>
    /\ UNCHANGED <<firstFrame, twin, launcher, guiVars>>

\* load_state(s)
LoadState(s) ==
    /\ LET r == LoadSlot(slots[s], Cpu, ram, framecount)
       IN  /\ pc' = r.cpu.pc /\ a' = r.cpu.a /\ sp' = r.cpu.sp /\ p' = r.cpu.p
           /\ cycles' = r.cpu.cycles
           /\ ram' = r.ram
           /\ framecount' = r.framecount
           /\ last' = [Call("load_state") EXCEPT !.addr = s,
                          !.ret = IF r.ok THEN 1 ELSE 0]
    /\ UNCHANGED <<rom, rom_size, loaded, joy, framebuffer, nsteps, stepsAtLoad,
                   nframes, nloads>>
    /\ UNCHANGED <<sessVars, firstFrame, twin, launcher, guiVars>>

\* mem.write8 called by the host of the session.
Poke(addr, val) ==
    /\ ram' = Write8(ram, addr, val)
    /\ last' = [Call("write8") EXCEPT !.addr = addr, !.val = val]
    /\ UNCHANGED <<rom, rom_size, cpuVars, emuVars, nsteps, stepsAtLoad, nframes, nloads>>
    /\ UNCHANGED <<sessVars, firstFrame, twin, launcher, guiVars>>

NextSess ==
    \/ \E img \in SessImages : LoadRom(img)
    \/ LoadRomFail
    \/ Reset
    \/ RunFrame
    \/ \E addr \in PokeAddrs, val \in PokeVals : Poke(addr, val)
    \/ \E s \in SlotIds : SaveState(s)
    \/ \E s \in SlotIds : LoadState(s)

SpecSess == Init /\ [][NextSess]_vars

(***************************************************************************)
(* The input latch, written by the key handlers and by set_input, sampled  *)
(* by a reader.                                                            *)
(***************************************************************************)
\* The calls of set_state made since the reader last sampled, counted up to 2.
SetsSinceRead == IF last.op \in {"init", "joy_read"} THEN 0 ELSE last.steps

\* What a handler that passes bits to set_input leaves: the latch, and the
\* record of the call with the latch it overwrote (addr).
Latch(op, bits) ==
    /\ joy' = JoySetState(joy, bits)
    /\ last' = [Call(op) EXCEPT !.val = bits, !.addr = joy,
                   !.steps = IF SetsSinceRead < 2 THEN SetsSinceRead + 1 ELSE 2]

\* joy_state |= k computed as a sum.
KeyPress_Add(js, k) == js + k

\* joy_state |= k
KeyPress(js, k) == js + k - BitAnd(js, k)

\* joy_state &= ~k
KeyRelease(js, k) == js - BitAnd(js, k)

\* ZSNESGUI.key_down on a key of the keymap: joy_state |= k.
KeyDown(k) ==
    LET js == KeyPress(gui.joy_state, k)
    IN  /\ gui' = [gui EXCEPT !.joy_state = js, !.held = @ \cup {k}]
        /\ Latch("key_down", js)
        /\ UNCHANGED <<memVars, cpuVars, loaded, framecount, framebuffer,
                       nsteps, stepsAtLoad, nframes, nloads>>
        /\ UNCHANGED <<sessVars, firstFrame, twin, launcher, running, thr>>

\* ZSNESGUI.key_up on a key of the keymap: joy_state &= ~k.
KeyUp(k) ==
    LET js == KeyRelease(gui.joy_state, k)
    IN  /\ gui' = [gui EXCEPT !.joy_state = js, !.held = @ \ {k}]
        /\ Latch("key_up", js)
        /\ UNCHANGED <<memVars, cpuVars, loaded, framecount, framebuffer,
                       nsteps, stepsAtLoad, nframes, nloads>>
        /\ UNCHANGED <<sessVars, firstFrame, twin, launcher, running, thr>>

\* ZSNESGUI.key_down or key_up on a key that is not in the keymap: the test
\* event.keysym in keymap fails and the handler returns. The record keeps the
\* latest set_state call as it was.
KeyOther ==
    /\ last' = [Call("key_other") EXCEPT !.val = last.val, !.addr = last.addr,
                   !.steps = SetsSinceRead]
    /\ UNCHANGED <<memVars, cpuVars, emuVars, nsteps, stepsAtLoad, nframes, nloads>>
    /\ UNCHANGED <<sessVars, firstFrame, twin, launcher, guiVars>>

\* EmuSNES.set_input called by a host that is not the GUI.
HostSetInput(bits) ==
    /\ Latch("set_input", bits)
    /\ UNCHANGED <<memVars, cpuVars, loaded, framecount, framebuffer,
                   nsteps, stepsAtLoad, nframes, nloads>>
    /\ UNCHANGED <<sessVars, firstFrame, twin, launcher, guiVars>>

\* A reader samples joypad.state once.
JoyRead ==
    /\ last' = [Call("joy_read") EXCEPT !.ret = joy, !.val = last.val,
                   !.addr = last.addr, !.steps = SetsSinceRead]
    /\ UNCHANGED <<memVars, cpuVars, emuVars, nsteps, stepsAtLoad, nframes, nloads>>
    /\ UNCHANGED <<sessVars, firstFrame, twin, launcher, guiVars>>

NextJoy ==
    \/ \E k \in KeyBits : KeyDown(k)
    \/ \E k \in KeyBits : KeyUp(k)
    \/ KeyOther
    \/ \E bits \in JoyVals : HostSetInput(bits)
    \/ JoyRead

SpecJoy == Init /\ [][NextJoy]_vars

(***************************************************************************)
(* ZSNESGUI: the GUI thread runs one handler at a time, statement by       *)
(* statement; the emulation thread runs emu_loop, and inside it run_frame, *)
(* statement by statement. Nothing but the interpreter lock orders the     *)
(* two, so their statements interleave freely.                             *)
(***************************************************************************)
\* Where a thread is while a run_frame of its own has executed its first CPU
\* step and has not yet written the incremented frame count.
InFlight == {"steps", "render", "render2", "inc_read", "inc_write"}

\* Where the emulation thread in flight is, "" when none is.
HitNow ==
    IF \E t \in ThreadIds : thr[t].at \in InFlight
    THEN thr[CHOOSE t \in ThreadIds : thr[t].at \in InFlight].at
    ELSE ""

\* The process lives until the main loop has returned.
Alive == gui.at # "exited"

\* The threads with one more, started at the top of emu_loop.
Spawn(thr_) ==
    IF \E t \in ThreadIds : thr_[t].at = "none" THEN
        LET t == CHOOSE t \in ThreadIds :
                    /\ thr_[t].at = "none"
                    /\ \A u \in ThreadIds : u < t => thr_[u].at # "none"
        IN  [thr_ EXCEPT ![t] = [at |-> "test", tmp |-> 0]]
    ELSE thr_

\* start_emulator without the test of running.
StartEmulator_NoGuard(run, thr_) == [running |-> TRUE, thr |-> Spawn(thr_)]

\* ZSNESGUI.start_emulator: running and the threads after the call.
StartEmulator(run, thr_) ==
    IF run THEN [running |-> run, thr |-> thr_]
    ELSE [running |-> TRUE, thr |-> Spawn(thr_)]

\* A loop that goes on whatever running is.
LoopTest_Always(run) == TRUE

\* The test of the while of emu_loop.
LoopTest(run) == run

\* Load ROM, first statement of Memory.load_rom: self.rom = f.read().
GuiLoadRom(img) ==
    /\ Alive /\ gui.at = "idle" /\ nloads < MaxLoads
    /\ rom' = MemLoadRom(img).rom
    /\ gui' = [gui EXCEPT !.at = "load_size", !.hit = HitNow]
    /\ UNCHANGED <<ram, rom_size, cpuVars, emuVars, last, nsteps, stepsAtLoad,
                   nframes, nloads, sessVars, firstFrame, twin, launcher, running, thr>>

\* Load ROM, second statement of Memory.load_rom: self.rom_size = len(self.rom).
GuiLoadSize ==
    /\ Alive /\ gui.at = "load_size"
    /\ rom_size' = Len(rom)
    /\ gui' = [gui EXCEPT !.at = "load_flag",
                          !.hit = IF HitNow # "" THEN HitNow ELSE @]
    /\ UNCHANGED <<ram, rom, cpuVars, emuVars, last, nsteps, stepsAtLoad,
                   nframes, nloads, sessVars, firstFrame, twin, launcher, running, thr>>

\* Load ROM, the rest of the handler: self.loaded = ok, then start_emulator.
GuiLoadFlag ==
    /\ Alive /\ gui.at = "load_flag"
    /\ loaded' = TRUE
    /\ LET r == StartEmulator(running, thr)
       IN  running' = r.running /\ thr' = r.thr
    /\ gui' = [gui EXCEPT !.at = "idle",
                          !.hit = IF HitNow # "" THEN HitNow ELSE @]
    /\ last' = [Call("load_rom") EXCEPT !.ret = 1]
    /\ nloads' = nloads + 1
    /\ UNCHANGED <<memVars, cpuVars, framecount, joy, framebuffer, nsteps,
                   stepsAtLoad, nframes, sessVars, firstFrame, twin, launcher>>

\* Load ROM on a file that cannot be read: the exception leaves the handler.
GuiLoadFail ==
    /\ Alive /\ gui.at = "idle"
    /\ LET r == EmuLoadRom([ok |-> FALSE, data |-> <<>>], rom, rom_size, loaded)
       IN  /\ rom' = r.rom
           /\ rom_size' = r.rom_size
           /\ loaded' = r.loaded
           /\ last' = [Call("load_rom") EXCEPT !.ret = r.ret, !.raised = r.raised]
    /\ UNCHANGED <<ram, cpuVars, framecount, joy, framebuffer, nsteps,
                   stepsAtLoad, nframes, nloads, sessVars, firstFrame, twin, launcher, guiVars>>

\* Reset, first statement of EmuSNES.reset: self.cpu.pc = 0x8000.
GuiResetPc ==
    /\ Alive /\ gui.at = "idle"
    /\ pc' = EmuReset(Cpu, framecount, ram).cpu.pc
    /\ gui' = [gui EXCEPT !.at = "reset_fc", !.hit = HitNow]
    /\ UNCHANGED <<memVars, a, sp, p, cycles, emuVars, last, nsteps, stepsAtLoad,
                   nframes, nloads, sessVars, firstFrame, twin, launcher, running, thr>>

\* Reset, second statement of EmuSNES.reset: self.framecount = 0.
GuiResetCount ==
    /\ Alive /\ gui.at = "reset_fc"
    /\ framecount' = EmuReset(Cpu, framecount, ram).framecount
    /\ gui' = [gui EXCEPT !.at = "idle",
                          !.hit = IF HitNow # "" THEN HitNow ELSE @]
    /\ last' = Call("reset")
    /\ UNCHANGED <<memVars, cpuVars, loaded, joy, framebuffer, nsteps, stepsAtLoad,
                   nframes, nloads, sessVars, firstFrame, twin, launcher, running, thr>>

\* Exit, first statement of quit: self.running = False.
GuiQuit ==
    /\ Alive /\ gui.at = "idle"
    /\ running' = FALSE
    /\ gui' = [gui EXCEPT !.at = "quitting"]
    /\ last' = Call("quit")
    /\ UNCHANGED <<memVars, cpuVars, emuVars, nsteps, stepsAtLoad, nframes,
                   nloads, sessVars, firstFrame, twin, launcher, thr>>

\* Exit, second statement of quit: root.quit() ends the main loop, the script
\* ends after it and the process exits, which ends the daemon thread wherever
\* it is.
GuiExit ==
    /\ gui.at = "quitting"
    /\ gui' = [gui EXCEPT !.at = "exited"]
    /\ UNCHANGED <<memVars, cpuVars, emuVars, last, nsteps, stepsAtLoad, nframes,
                   nloads, sessVars, firstFrame, twin, launcher, running, thr>>

\* emu_loop: while self.running.
ThrTest(t) ==
    /\ Alive /\ thr[t].at = "test"
    /\ LoopTest(running) => nframes < MaxFrames
    /\ thr' = [thr EXCEPT ![t].at = IF LoopTest(running) THEN "call" ELSE "done"]
    /\ UNCHANGED <<memVars, cpuVars, emuVars, last, nsteps, stepsAtLoad, nframes,
                   nloads, sessVars, firstFrame, twin, launcher, running, gui>>

\* An exception of cpu.step that leaves run_frame, and emu_loop with it.
AfterSteps_NoTrap(raised) == IF raised THEN "done" ELSE "render"

\* run_frame, where the thread goes on when the loop of steps has ended, by
\* its last step or by an exception: the except clause prints it and
\* render_frame is next.
AfterSteps(raised) == "render"

\* run_frame is called and tests loaded.
ThrCall(t) ==
    /\ Alive /\ thr[t].at = "call"
    /\ thr' = [thr EXCEPT ![t].at = IF loaded THEN "step1" ELSE "sleep"]
    /\ gui' = [gui EXCEPT !.late = IF running THEN @ ELSE @ + 1]
    /\ nframes' = nframes + 1
    /\ UNCHANGED <<memVars, cpuVars, emuVars, last, nsteps, stepsAtLoad,
                   nloads, sessVars, firstFrame, twin, launcher, running>>

\* run_frame: the first call of cpu.step.
ThrStep1(t) ==
    /\ Alive /\ thr[t].at = "step1"
    /\ LET r == RunSteps(Cpu, 1, ram, rom, rom_size)
       IN  /\ pc' = r.pc /\ a' = r.a /\ sp' = r.sp /\ p' = r.p /\ cycles' = r.cycles
           /\ thr' = [thr EXCEPT ![t].at = IF r.raised THEN AfterSteps(r.raised)
                                           ELSE "steps"]
    /\ UNCHANGED <<memVars, emuVars, last, nsteps, stepsAtLoad, nframes,
                   nloads, sessVars, firstFrame, twin, launcher, running, gui>>

\* run_frame: the other calls of cpu.step, up to the one that raises.
ThrSteps(t) ==
    /\ Alive /\ thr[t].at = "steps"
    /\ LET r == RunSteps(Cpu, STEP_BUDGET - 1, ram, rom, rom_size)
       IN  /\ pc' = r.pc /\ a' = r.a /\ sp' = r.sp /\ p' = r.p /\ cycles' = r.cycles
           /\ thr' = [thr EXCEPT ![t].at = AfterSteps(r.raised)]
    /\ UNCHANGED <<memVars, emuVars, last, nsteps, stepsAtLoad, nframes,
                   nloads, sessVars, firstFrame, twin, launcher, running, gui>>

\* The rows render_frame draws first, and those it draws after them.
TopRows == 0 .. (SCREEN_HEIGHT \div 2) - 1
RestRows == (SCREEN_HEIGHT \div 2) .. SCREEN_HEIGHT - 1

\* run_frame: fb = self.ppu.render_frame(self.framecount), up to the middle
\* of the loop over y. The frame index is the argument, read at the call.
ThrRender(t) ==
    /\ Alive /\ thr[t].at = "render"
    /\ framebuffer' = RenderRows(framebuffer, framecount, TopRows)
    /\ thr' = [thr EXCEPT ![t].at = "render2", ![t].tmp = framecount]
    /\ UNCHANGED <<memVars, cpuVars, loaded, framecount, joy, last, nsteps,
                   stepsAtLoad, nframes, nloads, sessVars, firstFrame, twin, launcher, running, gui>>

\* run_frame: render_frame, the rest of the loop over y.
ThrRender2(t) ==
    /\ Alive /\ thr[t].at = "render2"
    /\ framebuffer' = RenderRows(framebuffer, thr[t].tmp, RestRows)
    /\ thr' = [thr EXCEPT ![t].at = "inc_read", ![t].tmp = 0]
    /\ UNCHANGED <<memVars, cpuVars, loaded, framecount, joy, last, nsteps,
                   stepsAtLoad, nframes, nloads, sessVars, firstFrame, twin, launcher, running, gui>>

\* run_frame: self.framecount += 1, the read.
ThrIncRead(t) ==
    /\ Alive /\ thr[t].at = "inc_read"
    /\ thr' = [thr EXCEPT ![t].at = "inc_write", ![t].tmp = framecount]
    /\ UNCHANGED <<memVars, cpuVars, emuVars, last, nsteps, stepsAtLoad, nframes,
                   nloads, sessVars, firstFrame, twin, launcher, running, gui>>

\* run_frame: self.framecount += 1, the write; the frame is returned.
ThrIncWrite(t) ==
    /\ Alive /\ thr[t].at = "inc_write"
    /\ framecount' = thr[t].tmp + 1
    /\ thr' = [thr EXCEPT ![t].at = "show", ![t].tmp = 0]
    /\ UNCHANGED <<memVars, cpuVars, loaded, joy, framebuffer, last, nsteps,
                   stepsAtLoad, nframes, nloads, sessVars, firstFrame, twin, launcher, running, gui>>

\* The image Image.fromarray(fb, "RGB").resize(...) and ImageTk.PhotoImage
\* make of the frame buffer: a copy of the pixels it holds at that moment.
ShowFrame(fb) == [set |-> TRUE, fb |-> fb]

\* emu_loop: fb is not None, the frame is copied into the image of the canvas.
ThrShow(t) ==
    /\ Alive /\ thr[t].at = "show"
    /\ gui' = [gui EXCEPT !.shown = ShowFrame(framebuffer)]
    /\ thr' = [thr EXCEPT ![t].at = "sleep"]
    /\ UNCHANGED <<memVars, cpuVars, emuVars, last, nsteps, stepsAtLoad, nframes,
                   nloads, sessVars, firstFrame, twin, launcher, running>>

\* emu_loop: time.sleep(1.0/FPS), then back to the test of the while.
ThrSleep(t) ==
    /\ Alive /\ thr[t].at = "sleep"
    /\ thr' = [thr EXCEPT ![t].at = "test"]
    /\ UNCHANGED <<memVars, cpuVars, emuVars, last, nsteps, stepsAtLoad, nframes,
                   nloads, sessVars, firstFrame, twin, launcher, running, gui>>

ThrNext(t) ==
    \/ ThrTest(t)
    \/ ThrCall(t)
    \/ ThrStep1(t)
    \/ ThrSteps(t)
    \/ ThrRender(t)
    \/ ThrRender2(t)
    \/ ThrIncRead(t)
    \/ ThrIncWrite(t)
    \/ ThrShow(t)
    \/ ThrSleep(t)

NextGui ==
    \/ \E img \in GuiImages : GuiLoadRom(img)
    \/ GuiLoadSize
    \/ GuiLoadFlag
    \/ GuiLoadFail
    \/ GuiResetPc
    \/ GuiResetCount
    \/ GuiQuit
    \/ GuiExit
    \/ \E t \in ThreadIds : ThrNext(t)

SpecGui == Init /\ [][NextGui]_vars

\* The emulation thread is a thread of the operating system: while it has a
\* statement to execute it is scheduled again and again, and time.sleep
\* returns. Nothing obliges the user to act on the GUI.
SpecGuiFair == SpecGui /\ \A t \in ThreadIds : WF_vars(ThrNext(t))

(***************************************************************************)
(* Two EmuSNES sessions of one host, which makes the same calls of         *)
(* load_rom, reset and run_frame on both and passes each its own buttons.  *)
(***************************************************************************)
\* The registers of a CPU65816, without the record of the steps of a frame.
Regs(c) == [c EXCEPT !.raised = FALSE, !.steps = 0, !.halts = 0]

\* EmuSNES(): the session after construction.
NewSess ==
    [cpu |-> [pc |-> PC_INIT, a |-> 0, sp |-> SP_INIT, p |-> P_INIT, cycles |-> 0,
              raised |-> FALSE, steps |-> 0, halts |-> 0],
     ram |-> <<>>, rom |-> <<>>, rom_size |-> 0, loaded |-> FALSE,
     framecount |-> 0, joy |-> 0,
     framebuffer |-> [px \in Pixels |-> <<0, 0, 0>>]]

\* The first session, as the variables hold it.
SessOf ==
    [cpu |-> Cpu, ram |-> ram, rom |-> rom, rom_size |-> rom_size,
     loaded |-> loaded, framecount |-> framecount, joy |-> joy,
     framebuffer |-> framebuffer]

\* EmuSNES.load_rom on a session: the session after it and what it returns.
SessLoadRom(s, io) ==
    LET r == EmuLoadRom(io, s.rom, s.rom_size, s.loaded)
    IN  [s |-> [s EXCEPT !.rom = r.rom, !.rom_size = r.rom_size,
                         !.loaded = r.loaded],
         ret |-> r.ret]

\* EmuSNES.reset on a session.
SessReset(s) ==
    LET r == EmuReset(s.cpu, s.framecount, s.ram)
    IN  [s |-> [s EXCEPT !.cpu = r.cpu, !.framecount = r.framecount, !.ram = r.ram],
         ret |-> 0]

\* run_frame that starts its steps with the latch in the accumulator.
SessRunFrame_ReadsLatch(s) ==
    LET f == EmuRunFrame(s.loaded, [s.cpu EXCEPT !.a = s.joy], s.framecount,
                         s.framebuffer, s.ram, s.rom, s.rom_size)
    IN  [s |-> [s EXCEPT !.cpu = Regs(f.cpu), !.framecount = f.framecount,
                         !.framebuffer = f.framebuffer],
         ret |-> f.ret]

\* EmuSNES.run_frame on a session: the session after it, and whether it
\* returns the frame buffer (1) or None (0).
SessRunFrame(s) ==
    LET f == EmuRunFrame(s.loaded, s.cpu, s.framecount, s.framebuffer,
                         s.ram, s.rom, s.rom_size)
    IN  [s |-> [s EXCEPT !.cpu = Regs(f.cpu), !.framecount = f.framecount,
                         !.framebuffer = f.framebuffer],
         ret |-> f.ret]

\* EmuSNES.set_input on a session.
SessSetInput(s, bits) ==
    [s |-> [s EXCEPT !.joy = JoySetState(s.joy, bits)], ret |-> 0]

\* The first session becomes r.s after the call op, which returned r.ret.
FirstBecomes(op, r) ==
    /\ pc' = r.s.cpu.pc /\ a' = r.s.cpu.a /\ sp' = r.s.cpu.sp /\ p' = r.s.cpu.p
    /\ cycles' = r.s.cpu.cycles
    /\ ram' = r.s.ram /\ rom' = r.s.rom /\ rom_size' = r.s.rom_size
    /\ loaded' = r.s.loaded /\ framecount' = r.s.framecount /\ joy' = r.s.joy
    /\ framebuffer' = r.s.framebuffer
    /\ last' = [Call(op) EXCEPT !.ret = r.ret]
    /\ UNCHANGED <<nsteps, stepsAtLoad, sessVars, firstFrame, guiVars, launcher>>

\* The second session becomes r.s after the same call, which returned r.ret.
TwinBecomes(r) == twin' = [on |-> TRUE, s |-> r.s, ret |-> r.ret]

\* The host creates the second session, before it has called the first.
TwinNew ==
    /\ ~twin.on /\ last.op = "init"
    /\ twin' = [on |-> TRUE, s |-> NewSess, ret |-> 0]
    /\ UNCHANGED <<memVars, cpuVars, emuVars, last, nsteps, stepsAtLoad, nframes,
                   nloads, sessVars, firstFrame, guiVars, launcher>>

\* load_rom of the same file on both sessions.
TwinLoadRom(img) ==
    /\ twin.on /\ nloads < MaxLoads
    /\ FirstBecomes("load_rom", SessLoadRom(SessOf, [ok |-> TRUE, data |-> img]))
    /\ TwinBecomes(SessLoadRom(twin.s, [ok |-> TRUE, data |-> img]))
    /\ nloads' = nloads + 1
    /\ UNCHANGED nframes

\* reset of both sessions.
TwinReset ==
    /\ twin.on
    /\ FirstBecomes("reset", SessReset(SessOf))
    /\ TwinBecomes(SessReset(twin.s))
    /\ UNCHANGED <<nframes, nloads>>

\* run_frame of both sessions.
TwinRunFrame ==
    /\ twin.on /\ nframes < MaxFrames
    /\ FirstBecomes("run_frame", SessRunFrame(SessOf))
    /\ TwinBecomes(SessRunFrame(twin.s))
    /\ nframes' = IF loaded THEN nframes + 1 ELSE nframes
    /\ UNCHANGED nloads

\* set_input of both sessions, each with buttons of its own.
TwinSetInput(bits, bits2) ==
    /\ twin.on
    /\ FirstBecomes("set_input", SessSetInput(SessOf, bits))
    /\ TwinBecomes(SessSetInput(twin.s, bits2))
    /\ UNCHANGED <<nframes, nloads>>

NextTwin ==
    \/ TwinNew
    \/ \E img \in SessImages : TwinLoadRom(img)
    \/ TwinReset
    \/ TwinRunFrame
    \/ \E bits \in JoyVals, bits2 \in JoyVals : TwinSetInput(bits, bits2)

SpecTwin == Init /\ [][NextTwin]_vars

(***************************************************************************)
(* EmuAIPro of emusnesv1.py without a backend: the handlers that start,    *)
(* stop and reset the external emulator, and the periodic _pulse. They all *)
(* run on the Tk main thread, one at a time.                               *)
(***************************************************************************)
\* start_emu without the test of running.
LaunchStart_NoGuard(l, romOk, exeOk, popenOk) ==
    IF l.rom_path = 0 \/ ~romOk \/ ~exeOk \/ ~popenOk THEN l
    ELSE [l EXCEPT !.emu_process = l.started + 1, !.started = @ + 1,
                   !.live = @ \cup {l.started + 1}, !.running = TRUE]

\* start_emu: nothing when running; nothing when no ROM is selected or its
\* file does not exist (romOk), when Project64.exe is missing (exeOk) or when
\* Popen raises (popenOk); else emu_process is the new process and running
\* is True.
LaunchStart(l, romOk, exeOk, popenOk) ==
    IF l.running THEN l
    ELSE IF l.rom_path = 0 \/ ~romOk THEN l
    ELSE IF ~exeOk THEN l
    ELSE IF ~popenOk THEN l
    ELSE [l EXCEPT !.emu_process = l.started + 1, !.started = @ + 1,
                   !.live = @ \cup {l.started + 1}, !.running = TRUE]

\* stop_emu: with emu_process set, the process is terminated (killed if it
\* does not end in time), emu_process is None and running False; else nothing.
LaunchStop(l) ==
    IF l.emu_process # 0 THEN
        [l EXCEPT !.live = @ \ {l.emu_process}, !.exited = @ \ {l.emu_process},
                  !.emu_process = 0, !.running = FALSE]
    ELSE l

\* reset_emu: nothing when not running; else stop_emu, and start_emu is
\* handed to root.after.
LaunchReset(l) ==
    IF ~l.running THEN l
    ELSE [LaunchStop(l) EXCEPT !.timers = @ + 1]

\* _pulse: when emu_process is set and poll() shows it has ended, it is
\* reaped: emu_process is None and running False.
LaunchPulse(l) ==
    IF l.emu_process # 0 /\ l.emu_process \in l.exited THEN
        [l EXCEPT !.live = @ \ {l.emu_process}, !.exited = @ \ {l.emu_process},
                  !.emu_process = 0, !.running = FALSE]
    ELSE l

\* A handler of the launcher has run and left l.
Launched(op, l) ==
    /\ launcher' = l
    /\ last' = Call(op)
    /\ UNCHANGED <<memVars, cpuVars, emuVars, nsteps, stepsAtLoad, nframes,
                   nloads, sessVars, firstFrame, guiVars, twin>>

\* The Start button.
StartEmu ==
    /\ launcher.started < MaxProcs
    /\ \E romOk \in BOOLEAN, exeOk \in BOOLEAN, popenOk \in BOOLEAN :
          Launched("start_emu", LaunchStart(launcher, romOk, exeOk, popenOk))

\* The start_emu that reset_emu handed to root.after, a second later.
TimerStart ==
    /\ launcher.timers > 0 /\ launcher.started < MaxProcs
    /\ \E romOk \in BOOLEAN, exeOk \in BOOLEAN, popenOk \in BOOLEAN :
          Launched("start_emu",
                   LaunchStart([launcher EXCEPT !.timers = @ - 1],
                               romOk, exeOk, popenOk))

\* choose_rom: a file is picked in the dialog.
ChooseRom == Launched("choose_rom", [launcher EXCEPT !.rom_path = 1])

\* A double click in the ROM list: the ROM is selected and start_emu called.
RomDoubleClick ==
    /\ launcher.started < MaxProcs
    /\ \E romOk \in BOOLEAN, exeOk \in BOOLEAN, popenOk \in BOOLEAN :
          Launched("start_emu",
                   LaunchStart([launcher EXCEPT !.rom_path = 1],
                               romOk, exeOk, popenOk))

\* The Stop button.
StopEmu == Launched("stop_emu", LaunchStop(launcher))

\* The Reset button.
ResetEmu ==
    /\ launcher.timers < MaxTimers
    /\ Launched("reset_emu", LaunchReset(launcher))

\* _pulse, every half second.
Pulse == Launched("pulse", LaunchPulse(launcher))

\* The external emulator ends by itself.
ProcExit ==
    /\ \E n \in launcher.live \ launcher.exited :
          launcher' = [launcher EXCEPT !.exited = @ \cup {n}]
    /\ UNCHANGED <<memVars, cpuVars, emuVars, last, nsteps, stepsAtLoad, nframes,
                   nloads, sessVars, firstFrame, guiVars, twin>>

NextLaunch ==
    \/ ChooseRom
    \/ RomDoubleClick
    \/ StartEmu
    \/ TimerStart
    \/ StopEmu
    \/ ResetEmu
    \/ Pulse
    \/ ProcExit

SpecLaunch == Init /\ [][NextLaunch]_vars

(***************************************************************************)
(* Memory: the claims.                                                     *)
(***************************************************************************)
\* read8 as the specification words it, on the memory of the current state.
RefRead(addr) ==
    IF addr < RAM_LIMIT THEN RamAt(ram, addr % RAM_SIZE)
    ELSE IF ROM_BASE <= addr /\ addr <= ROM_TOP /\ addr - ROM_BASE < rom_size
         THEN rom[addr - ROM_BASE + 1]
    ELSE 0

\* C1: RAM round trip. A read8(a) that directly follows write8(a, v), with
\* 0 <= a < 0x2000, returns v mod 256 (and does not raise).
C1_RoundTrip ==
    (last.op = "read8" /\ last.follows /\ 0 <= last.addr /\ last.addr < RAM_LIMIT)
        => (~last.raised /\ last.ret = last.val % 256)

\* C1 witness: write8(0x1FFF, -1) then read8(0x1FFF) has returned 255.
C1_Witness ==
    /\ last.op = "read8" /\ last.follows
    /\ last.addr = RAM_LIMIT - 1 /\ last.val = 0 - 1 /\ last.ret = 255

\* C2 as stated: for a < 0x2000 and k >= 1, a read8(a + ram_size*k) that
\* directly follows write8(a + ram_size*k, v) returns v mod 256, and read8(a)
\* shows the same cell.
C2_Original ==
    \A x \in AddrSamples, k \in 1..MaxK :
        (/\ x < RAM_LIMIT
         /\ last.op = "read8" /\ last.follows
         /\ last.addr = x + RAM_SIZE * k)
            => (/\ last.ret = last.val % 256
                /\ Read8(ram, rom, rom_size, x).val = last.val % 256)

\* C2 amended: the round trip holds for a + ram_size*k whenever that address is
\* itself below 0x2000 (k <= 0 for a >= 0), and read8(a) then shows the same
\* RAM cell; for 0 <= a < 0x2000 and k >= 1 the address is at or above 0x2000
\* and beyond the ROM window, and the read8 after the write returns 0.
C2_Wraparound ==
    \A x \in ReadAddrs, k \in (0 - MaxK)..MaxK :
        (/\ x < RAM_LIMIT
         /\ last.op = "read8" /\ last.follows
         /\ last.addr = x + RAM_SIZE * k)
            => IF last.addr < RAM_LIMIT
               THEN /\ ~last.raised
                    /\ last.ret = last.val % 256
                    /\ Read8(ram, rom, rom_size, x).val = last.val % 256
               ELSE (x >= 0) => (~last.raised /\ last.ret = 0)

\* C2 witness: write8(0x1FFF - ram_size, 66) then read8 of the same address has
\* returned 66, and read8(0x1FFF) shows it too.
C2_Witness ==
    /\ last.op = "read8" /\ last.follows
    /\ last.addr = (RAM_LIMIT - 1) - RAM_SIZE /\ last.val = 66 /\ last.ret = 66
    /\ Read8(ram, rom, rom_size, RAM_LIMIT - 1).val = 66

\* C3: read8 never raises, returns a byte and agrees with the reference
\* mapping, at every sampled address in every state, and so did the last
\* read8 made.
C3_Read8Total ==
    /\ \A addr \in ReadAddrs :
          LET r == Read8(ram, rom, rom_size, addr)
          IN  ~r.raised /\ r.val \in 0..255 /\ r.val = RefRead(addr)
    /\ last.op = "read8"
          => (~last.raised /\ last.ret \in 0..255 /\ last.ret = RefRead(last.addr))

\* C3 witness: a read8 of the second byte of the loaded scenario ROM has
\* returned it, with RAM written.
C3_Witness ==
    /\ last.op = "read8" /\ last.addr = ROM_BASE + 1
    /\ rom = ScenarioRom /\ last.ret = 66 /\ ~last.raised /\ ram # <<>>

\* C4: in the ROM window at or past the end of the loaded ROM (also with no
\* ROM loaded) read8 returns 0, whatever the address and the RAM.
C4_BoundsSafe ==
    /\ \A addr \in ReadAddrs :
          (ROM_BASE <= addr /\ addr <= ROM_TOP /\ addr - ROM_BASE >= Len(rom))
              => Read8(ram, rom, rom_size, addr) = [raised |-> FALSE, val |-> 0]
    /\ (/\ last.op = "read8"
        /\ ROM_BASE <= last.addr /\ last.addr <= ROM_TOP
        /\ last.addr - ROM_BASE >= Len(rom))
          => (~last.raised /\ last.ret = 0)

\* C4 witness: with the scenario ROM loaded and RAM written, read8 of the first
\* address past the ROM has returned 0.
C4_Witness ==
    /\ last.op = "read8" /\ last.addr = ROM_BASE + Len(ScenarioRom)
    /\ rom = ScenarioRom /\ ram # <<>> /\ last.ret = 0 /\ ~last.raised

\* C5: write8(a, v) with a >= 0x2000 changes no RAM byte; with a < 0x2000 it
\* sets the cell a mod ram_size to v mod 256 and changes no other cell; in both
\* cases rom and rom_size are unchanged and nothing is raised.
C5_WriteFrame ==
    [][last'.op = "write8" =>
          /\ rom' = rom /\ rom_size' = rom_size /\ ~last'.raised
          /\ IF last'.addr >= RAM_LIMIT THEN ram' = ram
             ELSE /\ RamAt(ram', last'.addr % RAM_SIZE) = last'.val % 256
                  /\ \A i \in (DOMAIN ram \cup DOMAIN ram') \ {last'.addr % RAM_SIZE} :
                        RamAt(ram', i) = RamAt(ram, i)]_vars

\* C5 witness: a write8 to the ROM window base, with RAM already written and a
\* ROM loaded.
C5_Witness ==
    /\ last.op = "write8" /\ last.addr = ROM_BASE /\ last.val = 66
    /\ ram # <<>> /\ rom = ScenarioRom

(***************************************************************************)
(* CPU65816: the claims (under SpecCpu).                                   *)
(***************************************************************************)
\* The scenario ROM was loaded before the first step of the CPU.
ScenarioFresh == rom = ScenarioRom /\ stepsAtLoad = 0

\* C6 as stated: in the scenario, after one step a = 0x42 and cycles = 4; after
\* a second step cycles = 6 and a = 0x42.
C6_Original ==
    /\ (ScenarioFresh /\ nsteps = 1) => (a = 66 /\ cycles = 4)
    /\ (ScenarioFresh /\ nsteps = 2) => (a = 66 /\ cycles = 6)

\* C6 amended: in the scenario, after one step a = 0x42 and cycles = 2 (the
\* cost of LDA #imm, cycles starting at 0); after a second step cycles = 4
\* and a is still 0x42.
C6_Scenario ==
    /\ (ScenarioFresh /\ nsteps = 1) => (a = 66 /\ cycles = 2)
    /\ (ScenarioFresh /\ nsteps = 2) => (a = 66 /\ cycles = 4)

\* C6 witness: the scenario after its second step.
C6_Witness ==
    /\ ScenarioFresh /\ nsteps = 2 /\ last.op = "step"
    /\ pc = ROM_BASE + 3 /\ a = 66 /\ cycles = 4

\* C9: a step that fetches an opcode other than 0xEA, 0xA9 and 0x00 advances
\* pc by 1 and cycles by 2 (the cost of NOP), leaves a, sp, p and the memory
\* unchanged, and signals no halt.
C9_UnknownOpcode ==
    [][(/\ last'.op = "step" /\ nsteps' = nsteps + 1
        /\ Read8(ram, rom, rom_size, pc).val \notin {OP_NOP, OP_LDA, OP_BRK})
          => /\ pc' = pc + 1
             /\ cycles' = cycles + 2
             /\ a' = a /\ sp' = sp /\ p' = p
             /\ ram' = ram /\ rom' = rom /\ rom_size' = rom_size
             /\ ~last'.raised /\ last'.halts = 0]_vars

\* C9 witness: a step has executed the unmapped opcode 0x01 at the ROM base.
C9_Witness ==
    /\ last.op = "step" /\ last.val = 1 /\ last.addr = ROM_BASE
    /\ pc = ROM_BASE + 1 /\ cycles = 2 /\ a = 0 /\ ~last.raised

(***************************************************************************)
(* EmuSNES: the claims (under Spec).                                       *)
(***************************************************************************)
\* C7: a run_frame in which a step fetches BRK traps the halt: the halting step
\* is its last step (one halt, and every earlier step cost 2 cycles), the
\* frame is rendered from the frame count and returned, framecount grows by 1
\* and nothing is raised.
C7_HaltTrapped ==
    [][(last'.op = "run_frame" /\ nframes' = nframes + 1 /\ last'.halts > 0)
          => /\ last'.halts = 1
             /\ last'.steps <= STEP_BUDGET
             /\ Read8(ram, rom, rom_size, pc' - 1).val = OP_BRK
             /\ cycles' = cycles + STEP_COST * (last'.steps - 1)
             /\ ~last'.raised /\ last'.ret = 1
             /\ framebuffer' = RenderFrame(framecount)
             /\ framecount' = framecount + 1]_vars

\* C7 witness: the first frame of the scenario ROM: LDA, NOP, then the BRK that
\* ended the steps, and the frame counted.
C7_Witness ==
    /\ last.op = "run_frame" /\ last.halts = 1 /\ last.steps = 3 /\ last.ret = 1
    /\ rom = ScenarioRom /\ pc = ROM_BASE + 4 /\ a = 66 /\ cycles = 4
    /\ framecount = 1

\* C8: on a loaded session run_frame returns a frame and raises nothing,
\* whatever the ROM image and the CPU state: so did the last run_frame made,
\* and so would one made in the current state.
C8_Robust ==
    /\ (last.op = "run_frame" /\ loaded) => (~last.raised /\ last.ret = 1)
    /\ loaded =>
          LET f == EmuRunFrame(loaded, Cpu, framecount, framebuffer, ram, rom, rom_size)
          IN  ~f.raised /\ f.ret = 1

\* C8 witness: two frames returned in a row by a session loaded with the empty
\* image.
C8_Witness ==
    /\ last.op = "run_frame" /\ loaded /\ rom = <<>> /\ last.ret = 1
    /\ framecount = 2 /\ last.halts = 1

\* C10: while the session is not loaded framecount is 0, and a run_frame on it
\* returns None, executes no step and changes no variable of the session.
C10_Unloaded ==
    /\ [](~loaded => framecount = 0)
    /\ [][(last'.op = "run_frame" /\ ~loaded)
            => /\ last'.ret = 0 /\ ~last'.raised /\ last'.steps = 0
               /\ UNCHANGED <<memVars, cpuVars, emuVars>>]_vars

\* C10 witness: a run_frame has returned None on a session that is not loaded
\* and whose input latch was set.
C10_Witness ==
    /\ last.op = "run_frame" /\ ~loaded /\ last.ret = 0 /\ joy = 1
    /\ framecount = 0 /\ pc = PC_INIT /\ cycles = 0

(***************************************************************************)
(* EmuSNES: reset, load and the frames they lead to.                       *)
(***************************************************************************)
\* C11: every reset sets the program counter to 0x8000 and the frame count to
\* 0 and leaves the RAM, the ROM, its size and the loaded flag as they were.
C11_ResetFrame ==
    [][last'.op = "reset"
         => /\ pc' = PC_INIT /\ framecount' = 0
            /\ UNCHANGED <<ram, rom, rom_size, loaded>>]_vars

\* C11 witness: a reset of a loaded session that has run frames and whose RAM
\* the host wrote: the byte written is still there.
C11_Witness ==
    /\ last.op = "reset" /\ loaded /\ rom = ScenarioRom /\ nframes > 0
    /\ cycles > 0 /\ RamAt(ram, RAM_LIMIT - 1) = 66
    /\ pc = PC_INIT /\ framecount = 0

\* C12: a run_frame that directly follows a reset of a loaded session returns
\* the first frame the session produced after its initial load, pixel for
\* pixel.
C12_ResetReplays ==
    (last.op = "run_frame" /\ last.after = "reset" /\ last.ret = 1 /\ firstFrame.set)
        => \A px \in Pixels : framebuffer[px] = firstFrame.fb[px]

\* C12 witness: the third frame of a session, run directly after a reset, is
\* its first frame again.
C12_Witness ==
    /\ last.op = "run_frame" /\ last.after = "reset" /\ last.ret = 1
    /\ nframes = 3 /\ firstFrame.set /\ framebuffer = firstFrame.fb
    /\ framecount = 1

\* C13: after every successful load_rom the session is loaded with the image,
\* the program counter is 0x8000 and the frame count is 0.
C13_LoadResets ==
    (last.op = "load_rom" /\ last.ret = 1)
        => /\ loaded /\ rom_size = Len(rom)
           /\ pc = PC_INIT /\ framecount = 0

\* C14: a load_rom that fails on an I/O error raises and leaves rom, rom_size,
\* the loaded flag, the registers and the frame count as they were.
C14_LoadFailure ==
    [][(last'.op = "load_rom" /\ last'.ret = 0)
         => /\ last'.raised
            /\ UNCHANGED <<rom, rom_size, loaded, cpuVars, framecount>>]_vars

\* C14 witness: a load has failed on a session that keeps running the program
\* it had: its ROM, its registers and its frame count are those of that program.
C14_Witness ==
    /\ last.op = "load_rom" /\ last.raised /\ loaded /\ rom = ScenarioRom
    /\ rom_size = 4 /\ framecount = 2 /\ pc > PC_INIT

\* The i-th bit of v, and the exclusive or of three bytes bit by bit.
BitOf(v, i) == (v \div (2 ^ i)) % 2

RECURSIVE XorBits(_, _, _, _)
XorBits(x, y, n, i) ==
    IF i < 0 THEN 0
    ELSE ((BitOf(x, i) + BitOf(y, i) + BitOf(n, i)) % 2) * (2 ^ i)
         + XorBits(x, y, n, i - 1)

\* The pixel (x, y) of frame n as the specification words it.
RefPixel(px, n) ==
    LET c == XorBits(px[1], px[2], n, 7)
    IN  <<c, 255 - c, c \div 2>>

\* C15: the frame a run_frame returns is a function of the frame index alone:
\* whatever the session did before, its pixel (x, y) is (c, 255 - c, c div 2)
\* with c = (x XOR y XOR n) mod 256.
C15_Deterministic ==
    (last.op = "run_frame" /\ last.ret = 1)
        => \A px \in Pixels : framebuffer[px] = RefPixel(px, last.val)

\* C15 witness: frame 0 rendered a second time, by a session that has run a
\* frame of the NOP program and was reset.
C15_Witness ==
    /\ last.op = "run_frame" /\ last.ret = 1 /\ last.val = 0 /\ last.after = "reset"
    /\ nframes = 2 /\ rom = NopRom /\ cycles > 2 * STEP_BUDGET
    /\ framebuffer[<<5, 3>>] = <<6, 249, 3>>
    /\ framebuffer[<<255, 223>>] = <<32, 223, 16>>

(***************************************************************************)
(* The input latch.                                                        *)
(***************************************************************************)
\* C16: the latch holds exactly the argument of the most recent set_state,
\* and that is what a reader samples: a set_state overwrites, whatever the
\* latch held and however many calls were made since the last read.
C16_Overwrite ==
    /\ joy = last.val
    /\ last.op = "joy_read" => last.ret = last.val

\* C16 witness: the reader samples 0 after a set_state of 0 overwrote a latch
\* that held 1, with two calls of set_state and no read in between.
C16_Witness ==
    /\ last.op = "joy_read" /\ last.steps = 2 /\ last.addr = 1
    /\ last.val = 0 /\ last.ret = 0 /\ joy = 0

C18_Serialized == gui.hit \notin InFlight

\* C19 as stated: no run_frame begins once quit has cleared running.
C19_Original == gui.late = 0

\* C19: once quit has cleared running, at most one run_frame begins (the one
\* of the iteration whose test of running had already passed), and a thread
\* that comes to the test of running leaves the loop there: it passes the
\* test no more.
C19_Cancellation ==
    /\ [](gui.late <= 1)
    /\ [][\A t \in ThreadIds :
            (~running /\ thr[t].at = "test") => thr'[t].at \in {"test", "done"}]_vars

\* C19 witness: a run_frame begun after quit cleared running has finished and
\* the loop has ended at its next test, before the process exits.
C19_Witness ==
    /\ gui.at = "quitting" /\ ~running /\ gui.late = 1
    /\ thr[1].at = "done" /\ framecount > 0

\* C20: at most one emulation thread is ever started, so no two threads
\* execute run_frame.
C20_SingleStepper ==
    /\ Cardinality({t \in ThreadIds : thr[t].at # "none"}) <= 1
    /\ Cardinality({t \in ThreadIds : thr[t].at \in InFlight \cup {"step1"}}) <= 1

\* C20 witness: after a second Load ROM and a Reset the first thread is still
\* the only one, in the middle of a run_frame.
C20_Witness ==
    /\ nloads = 2 /\ last.op = "reset" /\ running /\ gui.at = "idle"
    /\ thr[1].at \in InFlight /\ thr[2].at = "none"

(***************************************************************************)
(* The counters of a session.                                              *)
(***************************************************************************)
\* C22: the cycle count never decreases over load_rom, set_input and
\* run_frame (and the steps it makes); a step of the session that lowers it
\* is a reset that leaves it at 0.
C22_CyclesMonotonic ==
    [][/\ last'.op # "reset" => cycles' >= cycles
       /\ cycles' < cycles => (last'.op = "reset" /\ cycles' = 0)]_vars

\* C22 witness: the cycle count of two frames of the NOP program, kept over
\* a set_input and a second load.
C22_Witness ==
    /\ last.op = "load_rom" /\ last.ret = 1 /\ nloads = 2 /\ nframes = 2
    /\ joy = 1 /\ cycles = STEP_COST * LongRomLen

\* C24: a run_frame that returns a frame adds exactly 1 to the frame count, a
\* reset sets it to 0, and every other operation (set_input, load_rom, a
\* run_frame that returns no frame) leaves it as it is; so it counts the
\* frames produced since the last reset.
C24_FrameCount ==
    [][/\ (last'.op = "run_frame" /\ last'.ret = 1) => framecount' = framecount + 1
       /\ last'.op = "reset" => framecount' = 0
       /\ ~(last'.op = "reset" \/ (last'.op = "run_frame" /\ last'.ret = 1))
             => framecount' = framecount]_vars

\* C24 witness: one frame produced since the reset that followed two frames,
\* with a set_input made after it.
C24_Witness ==
    /\ last.op = "set_input" /\ framecount = 1 /\ nframes = 3 /\ loaded
    /\ framebuffer[<<5, 3>>] = <<6, 249, 3>>

\* C23: the program counter is a 16-bit unsigned value in every state.
C23_PcRange == 0 <= pc /\ pc <= ROM_TOP

(***************************************************************************)
(* CPU65816: the opcodes one by one.                                       *)
(***************************************************************************)
\* C25: a step on NOP adds 1 to the program counter and 2 to the cycle count
\* and changes nothing else; a step on LDA #imm loads the accumulator with
\* the byte that follows the opcode (0 where nothing is mapped), adds 2 to
\* the program counter and 2 to the cycle count; the accumulator stays a byte.
C25_NopLda ==
    [][last'.op = "step" =>
          /\ (~last'.raised /\ last'.val = OP_NOP)
                => /\ pc' = pc + 1 /\ cycles' = cycles + STEP_COST
                   /\ UNCHANGED <<a, sp, p, memVars>>
          /\ (~last'.raised /\ last'.val = OP_LDA)
                => /\ a' = RefRead(pc + 1)
                   /\ pc' = pc + 2 /\ cycles' = cycles + STEP_COST
                   /\ UNCHANGED <<sp, p, memVars>>
          /\ a' \in 0 .. BYTE_MASK]_vars

\* C25 witness: the LDA that is the only byte of the ROM has been stepped:
\* its operand address is unmapped, the accumulator holds 0, the program
\* counter is two past the opcode and one step's cycles are counted.
C25_Witness ==
    /\ last.op = "step" /\ last.val = OP_LDA /\ ~last.raised
    /\ rom = <<OP_LDA>> /\ last.addr = ROM_BASE /\ RefRead(ROM_BASE + 1) = 0
    /\ a = 0 /\ pc = ROM_BASE + 2 /\ cycles = STEP_COST

\* C30: a step that fetches BRK adds exactly 1 to the program counter and
\* leaves the cycle count and the accumulator as they were; a run_frame made
\* from there fetches at the byte after the BRK, executes at least one step
\* and leaves the program counter beyond that byte.
C30_HaltNotSticky ==
    [][(last'.op = "step" /\ last'.halts = 1) =>
          /\ last'.raised /\ last'.val = OP_BRK /\ last'.addr = pc
          /\ pc' = pc + 1
          /\ UNCHANGED <<cycles, a, sp, p>>
          /\ LET f == EmuRunFrame(TRUE, Cpu', framecount', framebuffer',
                                  ram', rom', rom_size')
             IN  f.cpu.steps >= 1 /\ f.cpu.pc > pc' /\ f.ret = 1]_vars

\* C30 witness: the BRK that ends the scenario program has been fetched at
\* 0x8003: the program counter is 0x8004, the accumulator and the cycle count
\* are those of the two steps before it.
C30_Witness ==
    /\ last.op = "step" /\ last.halts = 1 /\ rom = ScenarioRom
    /\ last.addr = ROM_BASE + 3 /\ pc = ROM_BASE + 4 /\ a = 66
    /\ cycles = 2 * STEP_COST

(***************************************************************************)
(* EmuSNES.run_frame: the step budget.                                     *)
(***************************************************************************)
\* C26: a run_frame on a loaded session executes at most 100 steps; when it
\* fetches no halt opcode it executes exactly 100, the cycle count grows by
\* exactly 200 and the program counter by between 100 and 200.
C26_StepBudget ==
    [][(last'.op = "run_frame" /\ loaded) =>
          /\ last'.steps >= 1 /\ last'.steps <= STEP_BUDGET
          /\ last'.halts = 0
                => /\ last'.steps = STEP_BUDGET
                   /\ cycles' = cycles + STEP_COST * STEP_BUDGET
                   /\ pc' - pc >= STEP_BUDGET
                   /\ pc' - pc <= 2 * STEP_BUDGET]_vars

\* C26 witness: the first frame of the ROM of NOPs has run its 100 steps
\* without a halt.
C26_Witness ==
    /\ last.op = "run_frame" /\ last.ret = 1 /\ last.halts = 0
    /\ last.steps = STEP_BUDGET /\ rom = NopRom
    /\ pc = ROM_BASE + STEP_BUDGET /\ cycles = STEP_COST * STEP_BUDGET

(***************************************************************************)
(* ZSNESGUI: the key handlers.                                             *)
(***************************************************************************)
\* The bitwise OR of a set of distinct single bits, which is their sum.
RECURSIVE OrOfBits(_)
OrOfBits(S) ==
    IF S = {} THEN 0
    ELSE LET k == CHOOSE k \in S : TRUE IN k + OrOfBits(S \ {k})

\* C28: after every key event joy_state is the OR of the bits of the mapped
\* keys that are held down, and a handler of a mapped key passes exactly that
\* to set_input, which the latch then holds; a key_down of a held key and a
\* key_up of a released key leave joy_state as it was; an event of an
\* unmapped key changes neither joy_state nor the latch and calls no
\* set_input.
C28_Accumulate ==
    [][/\ gui'.joy_state = OrOfBits(gui'.held)
       /\ last'.op \in {"key_down", "key_up"}
             => /\ last'.val = OrOfBits(gui'.held)
                /\ joy' = last'.val
                /\ gui'.held = gui.held => gui'.joy_state = gui.joy_state
       /\ last'.op = "key_other"
             => /\ UNCHANGED <<joy, gui>>
                /\ last'.val = last.val /\ last'.steps = SetsSinceRead]_vars

\* C28 witness: with the keys of bits 1, 2 and 8 held, a key_down of one of
\* them has passed 11 to set_input again, over a latch that already held 11.
C28_Witness ==
    /\ last.op = "key_down" /\ gui.held = {1, 2, 8}
    /\ last.val = 11 /\ last.addr = 11 /\ joy = 11 /\ gui.joy_state = 11

(***************************************************************************)
(* ZSNESGUI: Load ROM while frames are running.                            *)
(***************************************************************************)
\* C29: in every state in which an emulation thread is running, the middle
\* of a Load ROM of the GUI thread included, rom_size is the length of rom.
C29_RomSizeConsistent ==
    (\E t \in ThreadIds : thr[t].at \notin {"none", "done"})
        => rom_size = Len(rom)

(***************************************************************************)
(* ZSNESGUI: the frame handed to the display.                              *)
(***************************************************************************)
\* The frames the session can render within its budget, whole.
WholeFrames == {[px \in Pixels |-> RefPixel(px, n)] : n \in 0 .. MaxFrames + 1}

\* C21: the image the canvas shows is never torn: it is all of one frame n,
\* pixel by pixel; and while render_frame is part of the way through the
\* buffer no frame that run_frame returned is still waiting to be copied.
C21_NeverTorn ==
    /\ gui.shown.set => gui.shown.fb \in WholeFrames
    /\ (\E t \in ThreadIds : thr[t].at = "render2")
           => (\A u \in ThreadIds : thr[u].at # "show")

\* C21 witness: the canvas shows all of frame 0 while render_frame has drawn
\* the upper rows of frame 1 over the buffer whose lower rows are still those
\* of frame 0.
C21_Witness ==
    /\ thr[1].at = "render2" /\ thr[1].tmp = 1 /\ gui.shown.set
    /\ \A px \in Pixels : gui.shown.fb[px] = RefPixel(px, 0)
    /\ framebuffer[<<5, 3>>] = RefPixel(<<5, 3>>, 1)
    /\ framebuffer[<<0, SCREEN_HEIGHT - 1>>] = RefPixel(<<0, SCREEN_HEIGHT - 1>>, 0)

(***************************************************************************)
(* ZSNESGUI: the emulation loop goes on.                                   *)
(***************************************************************************)
\* The order of the statements of one iteration of emu_loop.
LoopOrder ==
    {<<"test", "call">>, <<"test", "done">>, <<"call", "step1">>,
     <<"call", "sleep">>, <<"step1", "steps">>, <<"step1", "render">>,
     <<"steps", "render">>, <<"render", "render2">>, <<"render2", "inc_read">>,
     <<"inc_read", "inc_write">>, <<"inc_write", "show">>, <<"show", "sleep">>,
     <<"sleep", "test">>}

\* C27: every iteration of emu_loop calls run_frame exactly once and, the
\* session being loaded, copies its frame to the canvas before it sleeps;
\* and under fair scheduling of the emulation thread the loop that is at its
\* test with running set completes that iteration, whatever the ROM holds
\* and whatever the GUI thread does meanwhile, unless running is cleared or
\* the process exits: a new frame is produced again and again.
C27_FrameLiveness ==
    /\ [][\A t \in ThreadIds :
            /\ thr'[t].at # thr[t].at
                  => (thr[t].at = "none" \/ <<thr[t].at, thr'[t].at>> \in LoopOrder)
            /\ (thr[t].at = "call" /\ thr'[t].at # "call")
                  => (nframes' = nframes + 1 /\ (loaded => thr'[t].at = "step1"))
            /\ (nframes' # nframes /\ thr'[t].at # "none")
                  => (thr[t].at = "call" /\ thr'[t].at # "call")
            /\ (thr[t].at = "show" /\ thr'[t].at = "sleep")
                  => gui'.shown = [set |-> TRUE, fb |-> framebuffer]]_vars
    /\ \A t \in ThreadIds :
          (thr[t].at = "test" /\ running /\ loaded /\ nframes < MaxFrames)
             ~> \/ /\ thr[t].at = "sleep"
                   /\ gui.shown = [set |-> TRUE, fb |-> framebuffer]
                \/ ~running
                \/ ~Alive

\* C27 witness: the loop sleeps after its third frame, which the canvas
\* shows, on a ROM whose every frame ends in a trapped exception.
C27_Witness ==
    /\ thr[1].at = "sleep" /\ running /\ Alive /\ nframes = MaxFrames
    /\ gui.shown = [set |-> TRUE, fb |-> framebuffer]
    /\ \A px \in Pixels : framebuffer[px] = RefPixel(px, MaxFrames - 1)
    /\ rom = ScenarioRom /\ pc > ROM_BASE + 4

(***************************************************************************)
(* EmuSNES: the buttons and the rest of the session.                       *)
(***************************************************************************)
\* C31: a set_input changes nothing of a session but its latch; and two
\* sessions that received the same calls of load_rom, reset and run_frame,
\* with different buttons passed to set_input at the same points, have the
\* same program counter, accumulator, cycle count, RAM, frame count and
\* frame buffer after every call, and got the same frame or None from it.
C31_Noninterference ==
    [][/\ last'.op = "set_input"
             => UNCHANGED <<memVars, cpuVars, loaded, framecount, framebuffer>>
       /\ twin'.on
             => /\ pc' = twin'.s.cpu.pc /\ a' = twin'.s.cpu.a
                /\ cycles' = twin'.s.cpu.cycles
                /\ ram' = twin'.s.ram
                /\ framecount' = twin'.s.framecount
                /\ framebuffer' = twin'.s.framebuffer
                /\ last'.ret = twin'.ret]_vars

\* C31 witness: the two sessions hold different buttons and have each run
\* their third frame of the ROM of NOPs, the buttons having differed before
\* that frame.
C31_Witness ==
    /\ twin.on /\ last.op = "run_frame" /\ last.ret = 1 /\ twin.ret = 1
    /\ joy = 1 /\ twin.s.joy = 0 /\ nframes = MaxFrames /\ rom = NopRom
    /\ framecount = MaxFrames /\ twin.s.cpu.cycles = STEP_COST * LongRomLen

(***************************************************************************)
(* EmuAIPro: the external emulator process.                                *)
(***************************************************************************)
\* C32: without a backend, after every handler at most one process has been
\* started and neither stopped nor reaped, and running is true exactly when
\* emu_process is set; a start_emu while running starts nothing, and a
\* reset_emu while not running does nothing.
C32_Lifecycle ==
    [][/\ Cardinality(launcher'.live) <= 1
       /\ launcher'.running <=> launcher'.emu_process # 0
       /\ launcher'.emu_process # 0 => launcher'.live = {launcher'.emu_process}
       /\ (last'.op = "start_emu" /\ launcher.running)
             => /\ launcher'.running
                /\ launcher'.started = launcher.started
                /\ launcher'.live = launcher.live
                /\ launcher'.emu_process = launcher.emu_process
       /\ (last'.op = "reset_emu" /\ ~launcher.running)
             => launcher' = launcher
       /\ launcher'.started > launcher.started
             => (last'.op = "start_emu" /\ ~launcher.running
                 /\ launcher'.started = launcher.started + 1)]_vars

\* C32 witness: a Reset stopped the second process, the Start button then
\* started the third, and the start_emu that the Reset had deferred has run
\* while it was running and started nothing.
C32_Witness ==
    /\ last.op = "start_emu" /\ launcher.running /\ launcher.timers = 0
    /\ launcher.started = 3 /\ launcher.emu_process = 3 /\ launcher.live = {3}
    /\ launcher.exited = {3}

====
